---- MODULE Spec2Model ----
(***************************************************************************)
(* A model of kojikojiprg/har-for-surgery, src/model/individual:           *)
(*   model.py    IndividualActivityRecognition (lifecycle, forward, loss)  *)
(*   core.py     Q, Pz_y, Px_z (signatures and data flow)                  *)
(*   modules.py  GaussianVectorQuantizer (precision, distances, forward)   *)
(*                                                                         *)
(* Numbers.  Tensor entries are fixed-point numbers: the integer v stands  *)
(* for v / One.  exp and log are computed by range reduction and a series, *)
(* softmax subtracts the row maximum first, as torch does.  The two        *)
(* precision scalars are torch.float32 parameters; their transform is      *)
(* evaluated in a scaled-down binary floating-point format (MantBits       *)
(* significant bits, overflow to Inf above 2^(MaxExp+1), quantum 1/One)    *)
(* with round-to-nearest-even after every operation, so that absorption    *)
(* and overflow happen in the model as they do in float32.                 *)
(***************************************************************************)
EXTENDS Integers, Sequences, FiniteSets, TLC

\* ------------------------------------------------------------- bounds
\* fractional bits of a fixed-point number (and of the float quantum)
FracBits == 9
\* significant bits of the scaled-down float format
MantBits == 4
\* largest binary exponent of a finite float: values above
\* (2 - 2^(1-MantBits)) * 2^MaxExp overflow to Inf
MaxExp == 6
\* the precision transform is examined on log-parameters -XMax .. XMax
XMax == 7
\* terms of the exponential series after the leading 1
ExpTerms == 8

One == 2^FracBits
Half == One \div 2
ExpScale == 2^14

\* ------------------------------------------------------ integer helpers
Abs(n) == IF n < 0 THEN -n ELSE n

\* n / d rounded to the nearest integer, ties to even (d > 0)
RoundDiv(n, d) ==
  LET q == n \div d
      r == n % d
  IN  IF 2 * r < d THEN q
      ELSE IF 2 * r > d THEN q + 1
      ELSE IF q % 2 = 0 THEN q ELSE q + 1

RECURSIVE FloorLog2(_)
FloorLog2(n) == IF n < 2 THEN 0 ELSE 1 + FloorLog2(n \div 2)

RECURSIVE SumSeq(_)
SumSeq(s) == IF s = <<>> THEN 0 ELSE Head(s) + SumSeq(Tail(s))

RECURSIVE MaxSeq(_)
MaxSeq(s) ==
  IF Len(s) = 1 THEN s[1]
  ELSE LET m == MaxSeq(Tail(s)) IN IF s[1] >= m THEN s[1] ELSE m

\* fixed-point product
FMul(a, b) == RoundDiv(a * b, One)

\* ------------------------------------------------------------ exp, log
\* e^-n * ExpScale for n = 0, 1, 2, ...
ExpIntTab == <<16384, 6027, 2217, 816, 300, 110, 41, 15, 5, 2, 1>>
ExpNegInt(n) == IF n + 1 <= Len(ExpIntTab) THEN ExpIntTab[n + 1] ELSE 0

\* sum of the series of e^-(u/ExpScale), 0 <= u < ExpScale, from term k on
RECURSIVE ExpSeries(_, _, _, _)
ExpSeries(u, k, term, acc) ==
  IF k > ExpTerms THEN acc
  ELSE LET t == RoundDiv(-(term * u), k * ExpScale)
       IN  ExpSeries(u, k + 1, t, acc + t)

\* e^-(t/One) * ExpScale for a fixed-point t >= 0
ExpNeg(t) ==
  LET n == t \div One
      f == (t % One) * (ExpScale \div One)
  IN  RoundDiv(ExpNegInt(n) * ExpSeries(f, 1, ExpScale, ExpScale), ExpScale)

\* ln 2 * ExpScale
Ln2 == RoundDiv(69315 * ExpScale, 100000)

\* ln(n/d) * ExpScale for n >= d > 0: n/d = 2^k * m, 1 <= m < 2,
\* ln m = 2 atanh((m-1)/(m+1))
LnGe1(n, d) ==
  LET k  == FloorLog2(n \div d)
      D  == d * 2^k
      s  == RoundDiv((n - D) * ExpScale, n + D)
      s2 == RoundDiv(s * s, ExpScale)
      s3 == RoundDiv(s * s2, ExpScale)
      s5 == RoundDiv(s3 * s2, ExpScale)
      s7 == RoundDiv(s5 * s2, ExpScale)
      s9 == RoundDiv(s7 * s2, ExpScale)
  IN  k * Ln2
      + 2 * (s + RoundDiv(s3, 3) + RoundDiv(s5, 5) + RoundDiv(s7, 7)
               + RoundDiv(s9, 9))

\* ln(n/d) as a fixed-point number, n > 0, d > 0
Ln(n, d) ==
  IF n >= d THEN RoundDiv(LnGe1(n, d), ExpScale \div One)
  ELSE -RoundDiv(LnGe1(d, n), ExpScale \div One)

\* ------------------------------------------- float32, scaled down
\* A non-negative float is a count of quanta (1/One) with at most MantBits
\* significant bits, or Inf.
MaxFinite == (2^MantBits - 1) * 2^(MaxExp - MantBits + 1) * One
Inf == MaxFinite + 1
Finite(v) == v /= Inf

\* num/den quanta rounded to the format (round to nearest, ties to even)
RoundF(num, den) ==
  LET i == num \div den
      r == IF i < 2^MantBits THEN RoundDiv(num, den)
           ELSE LET step == 2^(FloorLog2(i) - MantBits + 1)
                IN  RoundDiv(num, den * step) * step
  IN  IF r > MaxFinite THEN Inf ELSE r

\* torch.exp of a fixed-point x, as a float
FExp(x) ==
  IF x <= 0 THEN RoundF(ExpNeg(-x) * One, ExpScale)
  ELSE IF ExpNeg(x) = 0 THEN Inf
  ELSE RoundF(ExpScale * One, ExpNeg(x))

FAdd(a, b) == IF a = Inf \/ b = Inf THEN Inf ELSE RoundF(a + b, 1)

FDiv(a, b) ==
  IF b = Inf THEN 0
  ELSE IF b = 0 THEN Inf
  ELSE RoundF(a * One, b)

\* ------------------------------------------------- precision transform
\* the floor of torch.clamp(param_q, min=1e-10): the smallest positive float
ClampFloor == 1

Clamp(v, lo) == IF v < lo THEN lo ELSE v

\* 1 + self.log_param_q.exp()
ParamQ(lp) == FAdd(One, FExp(lp))

PrecisionQ_recip(lp) == FDiv(Clamp(ParamQ(lp), ClampFloor), Half)

\* precision = 0.5 / torch.clamp(param_q, min=1e-10)
PrecisionQ(lp) == FDiv(Half, Clamp(ParamQ(lp), ClampFloor))

\* ================================================ GaussianVectorQuantizer
\* config.n_clusters, config.book_size, config.latent_ndim and the shape of
\* ze (b, n_pts, latent_ndim)
NClusters == 2
BookSize == 2
LatentNdim == 2
BatchSize == 2
NPts == 1
\* noise tensors are drawn from the seeds 1 .. NSeeds
NSeeds == 3

VARIABLES
  config,             \* IndividualActivityRecognition.config
  Q, Pz_y, Px_z,      \* IndividualActivityRecognition's sub-models (None until built)
  nbuilt,             \* sub-models constructed so far
  ncfg,               \* configure_model calls so far
  books,              \* GaussianVectorQuantizer.books, n_clusters codebooks
  log_param_q,        \* GaussianVectorQuantizer.log_param_q
  log_param_q_cls,    \* GaussianVectorQuantizer.log_param_q_cls
  temperature,        \* GaussianVectorQuantizer.temperature
  call,               \* the last call: its operation, arguments and noise
  ret                 \* what that call handed back, or the exception it raised

vars == <<config, Q, Pz_y, Px_z, nbuilt, ncfg, books, log_param_q, log_param_q_cls,
          temperature, call, ret>>
modelVars == <<config, Q, Pz_y, Px_z, nbuilt, ncfg>>
quantVars == <<books, log_param_q, log_param_q_cls, temperature>>

\* Python's None, for a sub-model or a mapping; a float attribute that may be
\* None is <<>> or <<value>>
None == [cls |-> "None"]
NoValue == <<>>
Idle == [op |-> "idle"]
NoRet == [status |-> "none"]
Raised(e) == [status |-> e]

\* a row built element by element, as a tuple
Row(f) == f \o <<>>

\* ------------------------------------------------------------- tensors
Dot(a, b) == SumSeq(Row([d \in 1..Len(a) |-> FMul(a[d], b[d])]))

\* torch.matmul of a weight row (book_size) with a book (book_size, latent_ndim)
MatMulRow(w, book) ==
  Row([d \in 1..LatentNdim |-> SumSeq(Row([r \in 1..Len(w) |-> FMul(w[r], book[r][d])]))])

\* torch.argmax along the last axis: the first index of the maximum
ArgMax_last(row) ==
  CHOOSE k \in 1..Len(row) :
    /\ row[k] = MaxSeq(row)
    /\ \A m \in 1..Len(row) : row[m] = MaxSeq(row) => m <= k

ArgMax(row) ==
  CHOOSE k \in 1..Len(row) :
    /\ row[k] = MaxSeq(row)
    /\ \A m \in 1..(k - 1) : row[m] < row[k]

OneHot(k, n) == Row([r \in 1..n |-> IF r = k THEN One ELSE 0])

\* F.softmax / torch.softmax along the last axis, the row maximum subtracted
Softmax(row) ==
  LET m == MaxSeq(row)
      e == Row([k \in 1..Len(row) |-> ExpNeg(m - row[k])])
      s == SumSeq(e)
  IN  Row([k \in 1..Len(row) |-> RoundDiv(e[k] * One, s)])

\* torch.log_softmax along the last axis
LogSoftmax(row) ==
  LET m == MaxSeq(row)
      e == Row([k \in 1..Len(row) |-> ExpNeg(m - row[k])])
      l == Ln(SumSeq(e), ExpScale)
  IN  Row([k \in 1..Len(row) |-> (row[k] - m) - l])

\* ------------------------------------------------------- calc_distance
CalcDistance_sign(z, book) ==
  Row([p \in 1..Len(z) |->
    Row([r \in 1..Len(book) |->
      Dot(z[p], z[p]) + Dot(book[r], book[r]) + 2 * Dot(z[p], book[r])])])

\* sum(z**2, dim=1, keepdim=True) + sum(book**2, dim=1) - 2 * matmul(z, book.t())
CalcDistance(z, book) ==
  Row([p \in 1..Len(z) |->
    Row([r \in 1..Len(book) |->
      Dot(z[p], z[p]) + Dot(book[r], book[r]) - 2 * Dot(z[p], book[r])])])

\* -------------------------------------------- gumbel_softmax_relaxation
\* log(1e-10), the value of log(v + eps) at v = 0; eps is below the
\* resolution of every other v
LnEps == -RoundDiv(230259 * One, 10000)
LogPlusEps(v) == IF v <= 0 THEN LnEps ELSE Ln(v, One)

\* torch.rand draws from [0, 1)
UList == <<0, One \div 8, Half, (7 * One) \div 8>>

\* g = -log(-log(U + eps) + eps), tabulated on the draws
GumbelTab == [k \in 1..Len(UList) |-> -LogPlusEps(-LogPlusEps(UList[k]))]
Gumbel(U) == GumbelTab[CHOOSE k \in 1..Len(UList) : UList[k] = U]

\* y = logits + g; softmax(y / self.temperature): a row of logits, a row of U.
\* Dividing by a temperature of None raises TypeError (see VQForwardTrain).
GumbelSoftmaxRelaxation(logits, U, temp) ==
  Softmax(Row([k \in 1..Len(logits) |->
             RoundDiv((logits[k] + Gumbel(U[k])) * One, temp[1])]))

\* ------------------------------------ GaussianVectorQuantizer.forward
\* One example of the training loop (the body of `for i, c_logit in
\* enumerate(c_logits)`): c_prob, then over all books the mixed logit and
\* the mixed zqi.  Uc is the example's noise for c_prob, Ue[j] its noise
\* for the encoding of book j.
RECURSIVE MixBooks(_, _, _, _, _, _, _, _)
MixBooks(j, zei, bks, precision_q, c_prob, Ue, temp, acc) ==
  IF j > Len(bks) THEN acc
  ELSE
    LET dist     == CalcDistance(zei, bks[j])
        logitj   == Row([p \in 1..Len(zei) |->
                      Row([r \in 1..BookSize |-> FMul(-dist[p][r], precision_q)])])
        encoding == Row([p \in 1..Len(zei) |->
                      GumbelSoftmaxRelaxation(logitj[p], Ue[j][p], temp)])
        logit    == Row([p \in 1..Len(zei) |->
                      Row([r \in 1..BookSize |->
                        acc.logit[p][r] + FMul(logitj[p][r], c_prob[j])])])
        zqi      == Row([p \in 1..Len(zei) |->
                      Row([d \in 1..LatentNdim |->
                        acc.zqi[p][d]
                          + FMul(MatMulRow(encoding[p], bks[j])[d], c_prob[j])])])
    IN  MixBooks(j + 1, zei, bks, precision_q, c_prob, Ue, temp,
                 [logit |-> logit, zqi |-> zqi])

TrainExample_relaxed(zei, c_logit, bks, precision_q, precision_q_cls, temp, Uc, Ue) ==
  LET c_prob == GumbelSoftmaxRelaxation(
                  Row([j \in 1..Len(c_logit) |-> FMul(c_logit[j], precision_q_cls)]),
                  Uc, temp)
      mixed  == MixBooks(1, zei, bks, precision_q, c_prob, Ue, temp,
                  [logit |-> Row([p \in 1..Len(zei) |-> Row([r \in 1..BookSize |-> 0])]),
                   zqi   |-> Row([p \in 1..Len(zei) |-> Row([d \in 1..LatentNdim |-> 0])])])
      \* the encodings of the last book stand in for the logits
      noisy  == Row([p \in 1..Len(zei) |->
                  GumbelSoftmaxRelaxation(mixed.logit[p], Ue[Len(bks)][p], temp)])
  IN  [logit |-> noisy, zqi |-> mixed.zqi, c_prob |-> c_prob,
       books_local |-> Append(bks, bks[Len(bks)])]

TrainExample_skipFirst(zei, c_logit, bks, precision_q, precision_q_cls, temp, Uc, Ue) ==
  LET c_prob == GumbelSoftmaxRelaxation(
                  Row([j \in 1..Len(c_logit) |-> FMul(c_logit[j], precision_q_cls)]),
                  Uc, temp)
      \* the loop over the books starts at the second
      mixed  == MixBooks(2, zei, bks, precision_q, c_prob, Ue, temp,
                  [logit |-> Row([p \in 1..Len(zei) |-> Row([r \in 1..BookSize |-> 0])]),
                   zqi   |-> Row([p \in 1..Len(zei) |-> Row([d \in 1..LatentNdim |-> 0])])])
  IN  [logit |-> mixed.logit, zqi |-> mixed.zqi, c_prob |-> c_prob,
       books_local |-> Append(bks, bks[Len(bks)])]

TrainExample(zei, c_logit, bks, precision_q, precision_q_cls, temp, Uc, Ue) ==
  LET c_prob == GumbelSoftmaxRelaxation(
                  Row([j \in 1..Len(c_logit) |-> FMul(c_logit[j], precision_q_cls)]),
                  Uc, temp)
      mixed  == MixBooks(1, zei, bks, precision_q, c_prob, Ue, temp,
                  [logit |-> Row([p \in 1..Len(zei) |-> Row([r \in 1..BookSize |-> 0])]),
                   zqi   |-> Row([p \in 1..Len(zei) |-> Row([d \in 1..LatentNdim |-> 0])])])
  IN  [logit |-> mixed.logit, zqi |-> mixed.zqi, c_prob |-> c_prob,
       \* books = torch.cat([books, book.view(1, ...)]): a local, rebuilt
       \* from self.books at the next example
       books_local |-> Append(bks, bks[Len(bks)])]

\* the is_train branch, then prob and log_prob
VQForwardTrain(ze, c_logits, bks, lpq, lpqc, temp, Uc, Ue) ==
  IF Len(c_logits) > 0 /\ temp = NoValue
    THEN Raised("TypeError")   \* y / self.temperature with temperature None
  ELSE
    LET precision_q     == PrecisionQ(lpq)
        precision_q_cls == PrecisionQ(lpqc)
        ex == Row([i \in 1..Len(c_logits) |->
                TrainExample(ze[i], c_logits[i], bks, precision_q,
                             precision_q_cls, temp, Uc[i], Ue[i])])
        logits == Row([i \in 1..Len(c_logits) |-> ex[i].logit])
    IN  [status      |-> "ok",
         zq          |-> Row([i \in 1..Len(c_logits) |-> ex[i].zqi]),
         precision_q |-> precision_q,
         prob        |-> Row([i \in 1..Len(logits) |->
                           Row([p \in 1..Len(logits[i]) |-> Softmax(logits[i][p])])]),
         log_prob    |-> Row([i \in 1..Len(logits) |->
                           Row([p \in 1..Len(logits[i]) |-> LogSoftmax(logits[i][p])])])]

\* the else branch: one book per example by argmax of c_logits, one row per
\* point by argmax of the logits, then prob and log_prob
VQForwardEval(ze, c_logits, bks, lpq) ==
  LET precision_q == PrecisionQ(lpq)
      idx    == Row([i \in 1..Len(c_logits) |-> ArgMax(c_logits[i])])
      bsel   == Row([i \in 1..Len(c_logits) |-> bks[idx[i]]])
      logits == Row([i \in 1..Len(c_logits) |->
                  LET dist == CalcDistance(ze[i], bsel[i])
                  IN  Row([p \in 1..Len(ze[i]) |->
                        Row([r \in 1..BookSize |-> FMul(-dist[p][r], precision_q)])])])
      indices   == Row([i \in 1..Len(logits) |->
                     Row([p \in 1..Len(logits[i]) |-> ArgMax(logits[i][p])])])
      encodings == Row([i \in 1..Len(logits) |->
                     Row([p \in 1..Len(logits[i]) |-> OneHot(indices[i][p], BookSize)])])
  IN  [status      |-> "ok",
       zq          |-> Row([i \in 1..Len(logits) |->
                         Row([p \in 1..Len(logits[i]) |->
                           MatMulRow(encodings[i][p], bsel[i])])]),
       precision_q |-> precision_q,
       prob        |-> Row([i \in 1..Len(logits) |->
                         Row([p \in 1..Len(logits[i]) |-> Softmax(logits[i][p])])]),
       log_prob    |-> Row([i \in 1..Len(logits) |->
                         Row([p \in 1..Len(logits[i]) |-> LogSoftmax(logits[i][p])])])]

\* forward(ze, c_logits, is_train) on the quantizer as it stands
VQForwardOf(c, bks, lpq, lpqc, temp) ==
  IF c.is_train
    THEN VQForwardTrain(c.ze, c.c_logits, bks, lpq, lpqc, temp, c.Uc, c.Ue)
    ELSE VQForwardEval(c.ze, c.c_logits, bks, lpq)

\* ------------------------------------------------------------- inputs
ZePoints == {<<0, One>>, <<One, -One>>}
ZeSet == [1..BatchSize -> [1..NPts -> ZePoints]]
CLogitRows == {<<0, One>>, <<One, One>>}
CLogitSet == [1..BatchSize -> CLogitRows]

UAt(k) == UList[(k % Len(UList)) + 1]
UcOf(seed) ==
  Row([i \in 1..BatchSize |-> Row([j \in 1..NClusters |-> UAt(seed + i + 2 * j)])])
UeOf(seed) ==
  Row([i \in 1..BatchSize |-> Row([j \in 1..NClusters |->
    Row([p \in 1..NPts |-> Row([r \in 1..BookSize |-> UAt(seed * (i + j) + p + r)])])])])
Seeds == 1..NSeeds

\* torch.randn(book_size, latent_ndim) per cluster: two draws
BookSets ==
  { << << <<0, 0>>, <<One, One>> >>, << <<One, 0>>, <<-One, One>> >> >>,
    << << <<One, -One>>, <<0, One>> >>, << <<0, 0>>, <<2 * One, 0>> >> >> }

\* the range the precision scalars are trained in
LogParamVals == {-One, One}
\* ... and the whole range of the transform
LogParamWide == {k * One : k \in -XMax..XMax}
TempVals == {<<One>>, <<2 * One>>}

\* ------------------------------------------------------------ actions
\* an attribute assignment by the training harness: quantizer.temperature = t
SetTemperature ==
  /\ call = Idle
  /\ \E t \in TempVals : temperature' = t /\ temperature /= t
  /\ UNCHANGED <<modelVars, books, log_param_q, log_param_q_cls, call, ret>>

VQForward_keepsLocal ==
  /\ call = Idle
  /\ \E ze \in ZeSet, c_logits \in CLogitSet, is_train \in BOOLEAN,
        sc \in Seeds, se \in Seeds,
        bks \in {books}, lpq \in {log_param_q}, lpqc \in {log_param_q_cls},
        temp \in {temperature} :
       LET c == [op |-> "vq.forward", ze |-> ze, c_logits |-> c_logits,
                 is_train |-> is_train,
                 Uc |-> IF is_train THEN UcOf(sc) ELSE <<>>,
                 Ue |-> IF is_train THEN UeOf(se) ELSE <<>>]
       IN  /\ ~is_train => sc = 1 /\ se = 1
           /\ call' = c
           /\ ret' = VQForwardOf(c, bks, lpq, lpqc, temp)
           \* the concatenated tensor is written back to self.books
           /\ books' = Append(bks, bks[Len(bks)])
  /\ UNCHANGED <<modelVars, log_param_q, log_param_q_cls, temperature>>

\* forward(ze, c_logits, is_train): every tensor it builds is a local
VQForward ==
  /\ call = Idle
  /\ \E ze \in ZeSet, c_logits \in CLogitSet, is_train \in BOOLEAN,
        sc \in Seeds, se \in Seeds,
        bks \in {books}, lpq \in {log_param_q}, lpqc \in {log_param_q_cls},
        temp \in {temperature} :
       LET c == [op |-> "vq.forward", ze |-> ze, c_logits |-> c_logits,
                 is_train |-> is_train,
                 Uc |-> IF is_train THEN UcOf(sc) ELSE <<>>,
                 Ue |-> IF is_train THEN UeOf(se) ELSE <<>>]
       IN  /\ ~is_train => sc = 1 /\ se = 1
           /\ call' = c
           /\ ret' = VQForwardOf(c, bks, lpq, lpqc, temp)
  /\ UNCHANGED <<modelVars, quantVars>>

\* the caller takes the result (or the exception)
Return ==
  /\ call /= Idle
  /\ call' = Idle
  /\ ret' = NoRet
  /\ UNCHANGED <<modelVars, quantVars>>

ModelIdle ==
  /\ config = [seq_len |-> 0]
  /\ Q = None /\ Pz_y = None /\ Px_z = None /\ nbuilt = 0 /\ ncfg = 0

InitQuant ==
  /\ ModelIdle
  /\ books \in BookSets
  /\ log_param_q \in LogParamVals
  /\ log_param_q_cls \in LogParamVals
  /\ temperature = NoValue
  /\ call = Idle
  /\ ret = NoRet

NextQuant == SetTemperature \/ VQForward \/ Return

SpecQuant == InitQuant /\ [][NextQuant]_vars

\* the quantizer with one precision scalar anywhere in the transform's range
InitPrecision ==
  /\ ModelIdle
  /\ books = CHOOSE b \in BookSets : b[1][1] = <<0, 0>>
  /\ \/ log_param_q \in LogParamWide /\ log_param_q_cls = 0
     \/ log_param_q = 0 /\ log_param_q_cls \in LogParamWide
  /\ temperature = NoValue
  /\ call = Idle
  /\ ret = NoRet

SpecPrecision == InitPrecision /\ [][NextQuant]_vars

\* ========================================= IndividualActivityRecognition
\* config.seq_len
SeqLen == 2
\* configure_model is called at most MaxConfigure times
MaxConfigure == 2

\* a value that is not a number (the mean of no elements)
NaN == -(2^30)
NAdd(a, b) == IF a = NaN \/ b = NaN THEN NaN ELSE a + b
NMul(a, w) == IF a = NaN THEN NaN ELSE FMul(a, w)

\* torch.exp of a fixed-point number
Exp(x) ==
  IF x <= 0 THEN RoundDiv(ExpNeg(-x) * One, ExpScale)
  ELSE RoundDiv(ExpScale * One, ExpNeg(x))
\* a / b
Quot(a, b) == RoundDiv(a * One, b)

\* ---------------------------------------------------- loss_kl_gaussian
KlGaussianOf_unsquared(m, logv, m_p, logv_p) ==
  RoundDiv(
    -SumSeq(Row([t \in 1..Len(m) |->
        One + logv[t] - logv_p[t]
          - Quot(Exp(logv[t]), Exp(logv_p[t]))
          - Quot(m_p[t] - m[t], Exp(logv_p[t]))])),
    2)

\* -0.5 * sum(1 + logv - logv_p - logv.exp() / logv_p.exp()
\*            - (m_p - m) ** 2 / logv_p.exp())
KlGaussianOf(m, logv, m_p, logv_p) ==
  RoundDiv(
    -SumSeq(Row([t \in 1..Len(m) |->
        One + logv[t] - logv_p[t]
          - Quot(Exp(logv[t]), Exp(logv_p[t]))
          - Quot(FMul(m_p[t] - m[t], m_p[t] - m[t]), Exp(logv_p[t]))])),
    2)

\* -------------------------------------------------- loss_kl_clustering
\* log(1e-20), the value of log(q + eps) at q = 0
LnEps20 == -RoundDiv(460517 * One, 10000)
LogPlusEps20(v) == IF v <= 0 THEN LnEps20 ELSE Ln(v, One)

\* (q * (log(q + eps) - log(p + eps))).sum() over a (batch, n_clusters) tensor
KlClusteringOf(q, p) ==
  SumSeq(Row([i \in 1..Len(q) |->
    SumSeq(Row([j \in 1..Len(q[i]) |->
      FMul(q[i][j], LogPlusEps20(q[i][j]) - LogPlusEps20(p[i][j]))]))]))

\* ------------------------------------------------------------ mse_loss
RECURSIVE SelectNot(_, _)
\* x[~mask]: the entries of x where mask is False, in order
SelectNot(x, mask) ==
  IF x = <<>> THEN <<>>
  ELSE (IF mask[1] THEN <<>> ELSE <<x[1]>>) \o SelectNot(Tail(x), Tail(mask))

\* F.mse_loss(a, b, reduction): the mean of no elements is NaN
MseLoss(a, b, reduction) ==
  LET sq == SumSeq(Row([t \in 1..Len(a) |-> FMul(a[t] - b[t], a[t] - b[t])]))
  IN  IF reduction = "sum" THEN sq
      ELSE IF Len(a) = 0 THEN NaN
      ELSE RoundDiv(sq, Len(a))

MaskedMse_all(x, fake, mask, reduction) == MseLoss(x, fake, reduction)

\* F.mse_loss(x[~mask], fake_x[~mask], reduction=...)
MaskedMse(x, fake, mask, reduction) ==
  MseLoss(SelectNot(x, mask), SelectNot(fake, mask), reduction)

\* ----------------------------------------------------------- loss_func
\* a: the arguments.  nparams: how many parameters self.parameters() yields.
LossFuncOf_sharedWeight(cfg, nparams, a) ==
  LET lrc_x_vis == NMul(MaskedMse(a.x_vis, a.fake_x_vis, a.mask, "mean"),
                        cfg.lrc_x_vis)
      lrc_x_spc == NMul(MaskedMse(a.x_spc, a.fake_x_spc, a.mask, "sum"),
                        cfg.lrc_x_spc)
      lg == FMul(KlGaussianOf(a.mu, a.logvar, a.mu_prior, a.logvar_prior), cfg.lg)
      y_prior == Row([i \in 1..Len(a.y) |->
                   Row([j \in 1..Len(a.y[i]) |-> Quot(One, Len(a.y[i]) * One)])])
      lc == FMul(KlClusteringOf(a.y, y_prior), cfg.lg)
      loss == NAdd(NAdd(NAdd(lrc_x_vis, lrc_x_spc), lg), lc)
  IN  IF nparams = 0 THEN Raised("StopIteration")
      ELSE [status |-> "ok", value |-> loss,
            logged |-> [x_vis |-> lrc_x_vis, x_spc |-> lrc_x_spc, g |-> lg,
                        c |-> lc, l |-> loss]]

LossFuncOf(cfg, nparams, a) ==
  LET lrc_x_vis == NMul(MaskedMse(a.x_vis, a.fake_x_vis, a.mask, "mean"),
                        cfg.lrc_x_vis)
      lrc_x_spc == NMul(MaskedMse(a.x_spc, a.fake_x_spc, a.mask, "sum"),
                        cfg.lrc_x_spc)
      lg == FMul(KlGaussianOf(a.mu, a.logvar, a.mu_prior, a.logvar_prior), cfg.lg)
      \* torch.ones(y.size()) / y.size(1)
      y_prior == Row([i \in 1..Len(a.y) |->
                   Row([j \in 1..Len(a.y[i]) |-> Quot(One, Len(a.y[i]) * One)])])
      lc == FMul(KlClusteringOf(a.y, y_prior), cfg.lc)
      loss == NAdd(NAdd(NAdd(lrc_x_vis, lrc_x_spc), lg), lc)
  IN  \* next(self.parameters()) on a module without parameters
      IF nparams = 0 THEN Raised("StopIteration")
      ELSE [status |-> "ok", value |-> loss,
            \* self.log_dict(logs, ...)
            logged |-> [x_vis |-> lrc_x_vis, x_spc |-> lrc_x_spc, g |-> lg,
                        c |-> lc, l |-> loss]]

\* ------------------------------------------------- sub-models, forward
\* the parameters of Q.forward, Pz_y.forward and Px_z.forward after self;
\* Pz_y's mask has a default
QForwardParams == <<"x_vis", "x_spc", "mask", "stage">>
PzyForwardParams == <<"y">>
PxzForwardParams == <<"z", "mask">>

\* a call with positional arguments binds when it gives one per parameter
Binds(args, params) == Len(args) = Len(params)

\* The learned layers are uninterpreted: an output is the term that names
\* the network, the head and what it was applied to.
Net(m, head, of) == [net |-> m.cls, id |-> m.id, head |-> head, of |-> of]

\* Q.forward
QForward(q, x_vis, x_spc, mask, stage, tau, noise) ==
  LET y0 == Net(q, "qy_x", <<x_vis, x_spc, mask>>)
      y  == IF stage = "train"
              THEN [op |-> "gumbel_softmax", of |-> [op |-> "log", of |-> y0],
                    tau |-> tau, noise |-> noise.gy]
              ELSE y0
      mu     == Net(q, "ff_mu", <<x_vis, x_spc, mask, y>>)
      logvar == Net(q, "ff_logvar", <<x_vis, x_spc, mask, y>>)
      z      == [op |-> "reparam", mu |-> mu, logvar |-> logvar, ep |-> noise.ep]
  IN  [z |-> z, mu |-> mu, logvar |-> logvar, y |-> y]

\* Pz_y.forward
PzyForward(pzy, y, noise) ==
  LET mu_prior     == Net(pzy, "ff_mu", <<y>>)
      logvar_prior == Net(pzy, "ff_logvar", <<y>>)
  IN  [z_prior |-> [op |-> "reparam", mu |-> mu_prior, logvar |-> logvar_prior,
                    ep |-> noise.ep_prior],
       mu_prior |-> mu_prior, logvar_prior |-> logvar_prior]

\* Px_z.forward
PxzForward(pxz, z, mask) ==
  [fake_x_vis |-> Net(pxz, "lin_vis", <<z, mask>>),
   fake_x_spc |-> Net(pxz, "lin_spc", <<z, mask>>)]

ForwardOf_lazy(cfg, q, pzy, pxz, x_vis, x_spc, mask, noise) ==
  [status |-> "ok", value |-> <<x_vis, x_spc, 0, 0, 0, 0, 0>>]

\* IndividualActivityRecognition.forward
ForwardOf(cfg, q, pzy, pxz, x_vis, x_spc, mask, noise) ==
  IF q = None
    THEN Raised("TypeError")      \* self.Q is None: None is not callable
  ELSE IF ~Binds(<<x_vis, x_spc, mask>>, QForwardParams)
    THEN Raised("TypeError")      \* Q.forward() is given no `stage`
  ELSE
    LET qo == QForward(q, x_vis, x_spc, mask, NoValue, cfg.tau, noise)
        resampled_y == [op |-> "gumbel_softmax", of |-> qo.y, tau |-> cfg.tau,
                        noise |-> noise.g]
        po == PzyForward(pzy, resampled_y, noise)
        xo == PxzForward(pxz, qo.z, mask)
    IN  IF ~Binds(<<resampled_y>>, PzyForwardParams)
             \/ ~Binds(<<qo.z, mask>>, PxzForwardParams)
          THEN Raised("TypeError")
        ELSE [status |-> "ok",
              value |-> <<xo.fake_x_vis, xo.fake_x_spc, qo.mu, qo.logvar,
                          po.mu_prior, po.logvar_prior, qo.y>>]

\* the parameters self.parameters() yields: those of the built sub-models
NParams(q, pzy, pxz) == Cardinality({m \in {q, pzy, pxz} : m /= None})

\* training_step: forward on the batch's first entries, then loss_func
TrainingStepOf(cfg, q, pzy, pxz, batch, noise) ==
  LET x_vis == batch.x_vis[1]
      x_spc == batch.x_spc[1]
      mask  == batch.mask[1]
      f == ForwardOf(cfg, q, pzy, pxz, x_vis, x_spc, mask, noise)
  IN  IF f.status /= "ok" THEN f
      ELSE LossFuncOf(cfg, NParams(q, pzy, pxz),
             [x_vis |-> x_vis, fake_x_vis |-> f.value[1],
              x_spc |-> x_spc, fake_x_spc |-> f.value[2],
              mu |-> f.value[3], logvar |-> f.value[4],
              mu_prior |-> f.value[5], logvar_prior |-> f.value[6],
              y |-> f.value[7], mask |-> mask])

\* predict_step: forward on the batch, the two masked errors, and the
\* record of the batch's first sample.  The outputs of the learned layers
\* are terms, so what is computed from them is a term too.
PredictStepOf(cfg, q, pzy, pxz, batch, noise) ==
  LET f == ForwardOf(cfg, q, pzy, pxz, batch.x_vis, batch.x_spc, batch.mask, noise)
      First(t) == [op |-> "first", of |-> t]
      Mse(x, fake, reduction) ==
        [op |-> "mse_loss", x |-> x, fake |-> fake, mask |-> batch.mask,
         reduction |-> reduction]
  IN  IF f.status /= "ok" THEN f
      ELSE [status |-> "ok",
            value |-> [x_vis |-> First(batch.x_vis),
                       fake_x_vis |-> First(f.value[1]),
                       mse_x_vis |-> Mse(batch.x_vis, f.value[1], "mean"),
                       x_spc |-> First(batch.x_spc),
                       fake_x_spc |-> First(f.value[2]),
                       mse_x_spc |-> Mse(batch.x_spc, f.value[2], "sum"),
                       mu |-> First(f.value[3]),
                       logvar |-> First(f.value[4]),
                       y |-> First(f.value[7]),
                       mask |-> First(batch.mask)]]

\* ------------------------------------------------------------- inputs
XSet == {<<0, Half>>, <<Half, -Half>>}
RecSet == [1..SeqLen -> {-Half, Half}]
MaskSet == [1..SeqLen -> BOOLEAN]
\* moments one quantum apart (0 and 1) and far apart
MomentVals == {-Half, 0, 1}
MomentSet == [1..SeqLen -> MomentVals]
\* the moments handed to loss_func: (mu, logvar, mu_prior, logvar_prior)
MomentQuads ==
  { <<m, m, m, m>> : m \in {<<0, 0>>, <<Half, -One>>} }
    \cup { <<<<0, Half>>, <<0, 0>>, <<0, Half>>, <<-One, 0>>>>,
           <<<<Half, 0>>, <<-One, 0>>, <<-One, 0>>, <<-One, 0>>>>,
           <<<<0, 0>>, <<Half, Half>>, <<0, -One>>, <<0, Half>>>> }
YSet == { <<<<Half, Half>>>>, <<<<One, 0>>>>, <<<<One \div 4, (3 * One) \div 4>>>> }
ConfigSet ==
  { [seq_len |-> SeqLen, tau |-> One, lrc_x_vis |-> One, lrc_x_spc |-> One,
     lg |-> One, lc |-> One],
    [seq_len |-> SeqLen, tau |-> Half, lrc_x_vis |-> 2 * One, lrc_x_spc |-> Half,
     lg |-> 3 * One, lc |-> One \div 4] }
NoiseSet == { [gy |-> s, g |-> s + 1, ep |-> s + 2, ep_prior |-> s + 3] : s \in {1, 5} }

\* ------------------------------------------------------------ actions


ConfigureModel_rebuild ==
  /\ call = Idle
  /\ ncfg < MaxConfigure
  /\ ncfg' = ncfg + 1
  \* no early return: the sub-models are constructed at every call
  /\ Q' = [cls |-> "Q", id |-> nbuilt + 1]
  /\ Pz_y' = [cls |-> "Pz_y", id |-> nbuilt + 2]
  /\ Px_z' = [cls |-> "Px_z", id |-> nbuilt + 3]
  /\ nbuilt' = nbuilt + 3
  /\ call' = [op |-> "configure_model"]
  /\ ret' = [status |-> "ok"]
  /\ UNCHANGED <<config, quantVars>>

\* configure_model
ConfigureModel ==
  /\ call = Idle
  /\ ncfg < MaxConfigure
  /\ ncfg' = ncfg + 1
  /\ IF Q /= None
       THEN UNCHANGED <<Q, Pz_y, Px_z, nbuilt>>
       ELSE /\ Q' = [cls |-> "Q", id |-> nbuilt + 1]
            /\ Pz_y' = [cls |-> "Pz_y", id |-> nbuilt + 2]
            /\ Px_z' = [cls |-> "Px_z", id |-> nbuilt + 3]
            /\ nbuilt' = nbuilt + 3
  /\ call' = [op |-> "configure_model"]
  /\ ret' = [status |-> "ok"]
  /\ UNCHANGED <<config, quantVars>>

\* forward(x_vis, x_spc, mask)
Forward ==
  /\ call = Idle
  /\ \E x_vis \in XSet, x_spc \in XSet, mask \in MaskSet, noise \in NoiseSet,
        cfg \in {config}, q \in {Q}, pzy \in {Pz_y}, pxz \in {Px_z} :
       /\ call' = [op |-> "forward", x_vis |-> x_vis, x_spc |-> x_spc,
                   mask |-> mask, noise |-> noise]
       /\ ret' = ForwardOf(cfg, q, pzy, pxz, x_vis, x_spc, mask, noise)
  /\ UNCHANGED <<modelVars, quantVars>>

\* training_step(batch, batch_idx)
TrainingStep ==
  /\ call = Idle
  /\ \E x_vis \in XSet, x_spc \in XSet, mask \in MaskSet, noise \in NoiseSet,
        cfg \in {config}, q \in {Q}, pzy \in {Pz_y}, pxz \in {Px_z} :
       LET batch == [x_vis |-> <<x_vis>>, x_spc |-> <<x_spc>>, mask |-> <<mask>>]
       IN  /\ call' = [op |-> "training_step", batch |-> batch, noise |-> noise]
           /\ ret' = TrainingStepOf(cfg, q, pzy, pxz, batch, noise)
  /\ UNCHANGED <<modelVars, quantVars>>

\* predict_step(batch)
PredictStep ==
  /\ call = Idle
  /\ \E x_vis \in XSet, x_spc \in XSet, mask \in MaskSet, noise \in NoiseSet,
        cfg \in {config}, q \in {Q}, pzy \in {Pz_y}, pxz \in {Px_z} :
       LET batch == [x_vis |-> x_vis, x_spc |-> x_spc, mask |-> mask]
       IN  /\ call' = [op |-> "predict_step", batch |-> batch, noise |-> noise]
           /\ ret' = PredictStepOf(cfg, q, pzy, pxz, batch, noise)
  /\ UNCHANGED <<modelVars, quantVars>>

\* loss_func(x_vis, fake_x_vis, x_spc, fake_x_spc, mu, logvar, mu_prior,
\*           logvar_prior, y, mask)
LossFunc ==
  /\ call = Idle
  /\ \E x_vis \in XSet, x_spc \in XSet, fake_x_vis \in RecSet,
        fake_x_spc \in RecSet, mq \in MomentQuads, y \in YSet, mask \in MaskSet,
        cfg \in {config}, q \in {Q}, pzy \in {Pz_y}, pxz \in {Px_z} :
       LET a == [x_vis |-> x_vis, fake_x_vis |-> fake_x_vis, x_spc |-> x_spc,
                 fake_x_spc |-> fake_x_spc, mu |-> mq[1], logvar |-> mq[2],
                 mu_prior |-> mq[3], logvar_prior |-> mq[4], y |-> y,
                 mask |-> mask]
       IN  /\ call' = [op |-> "loss_func", args |-> a]
           /\ ret' = LossFuncOf(cfg, NParams(q, pzy, pxz), a)
  /\ UNCHANGED <<modelVars, quantVars>>

\* the static method loss_kl_gaussian(m, logv, m_p, logv_p)
LossKlGaussian ==
  /\ call = Idle
  /\ \E m \in MomentSet, logv \in MomentSet, m_p \in MomentSet,
        logv_p \in MomentSet :
       /\ call' = [op |-> "loss_kl_gaussian", m |-> m, logv |-> logv,
                   m_p |-> m_p, logv_p |-> logv_p]
       /\ ret' = [status |-> "ok", value |-> KlGaussianOf(m, logv, m_p, logv_p)]
  /\ UNCHANGED <<modelVars, quantVars>>

\* __init__(config)
Init ==
  /\ config \in ConfigSet
  /\ Q = None /\ Pz_y = None /\ Px_z = None
  /\ nbuilt = 0 /\ ncfg = 0
  /\ books = <<>> /\ log_param_q = 0 /\ log_param_q_cls = 0
  /\ temperature = NoValue
  /\ call = Idle
  /\ ret = NoRet

Next ==
  \/ ConfigureModel
  \/ Forward
  \/ TrainingStep
  \/ PredictStep
  \/ LossFunc
  \/ LossKlGaussian
  \/ Return

Spec == Init /\ [][Next]_vars

\* =============================================================== claims
\* the squared Euclidean distance, term by term
SqDist(a, b) ==
  SumSeq(Row([d \in 1..Len(a) |-> FMul(a[d] - b[d], a[d] - b[d])]))

\* the first index at which a row is largest
FirstMax(row, k) ==
  /\ \A m \in 1..Len(row) : row[m] <= row[k]
  /\ \A m \in 1..(k - 1) : row[m] < row[k]

IsVQ == call.op = "vq.forward"
IsVQTrain == IsVQ /\ call.is_train
IsVQEval == IsVQ /\ ~call.is_train

\* C3: in inference mode every zq[i][p] is one row of one codebook, not a
\* blend: the codebook is the one at the argmax of c_logits[i], and the row
\* is one at the smallest squared Euclidean distance from ze[i][p].
C3_EvalPicksNearestCode ==
  IsVQEval =>
    /\ ret.status = "ok"
    /\ \A i \in 1..BatchSize, p \in 1..NPts :
         \E j \in 1..NClusters, r \in 1..BookSize :
           /\ FirstMax(call.c_logits[i], j)
           /\ ret.zq[i][p] = books[j][r]
           /\ \A r2 \in 1..BookSize :
                SqDist(call.ze[i][p], books[j][r])
                  <= SqDist(call.ze[i][p], books[j][r2])

\* an inference call whose two examples take different codebooks, the second
\* example the second row of the second codebook, strictly the nearest
C3_Witness ==
  /\ IsVQEval
  /\ ret.status = "ok"
  /\ call.c_logits[1][1] = call.c_logits[1][2]
  /\ call.c_logits[2][1] < call.c_logits[2][2]
  /\ ret.zq[1][1] \in {books[1][1], books[1][2]}
  /\ ret.zq[2][1] = books[2][2]
  /\ SqDist(call.ze[2][1], books[2][2]) < SqDist(call.ze[2][1], books[2][1])

\* C4 (as claimed): a training call's prob and log_prob are the same for
\* every gumbel noise drawn, the inputs and parameters being the same.
C4_ProbSameForAnyNoise ==
  (IsVQTrain /\ ret.status = "ok") =>
    \A sc \in Seeds, se \in Seeds :
      \E c \in {call}, bks \in {books}, lpq \in {log_param_q},
         lpqc \in {log_param_q_cls}, temp \in {temperature}, r \in {ret} :
        LET r2 == VQForwardTrain(c.ze, c.c_logits, bks, lpq, lpqc, temp,
                                 UcOf(sc), UeOf(se))
        IN  r2.prob = r.prob /\ r2.log_prob = r.log_prob

\* C4 (amended): a training call's prob and log_prob are the same for every
\* noise drawn for the code selection (the encodings), the inputs, the
\* parameters, the temperature and the noise of the cluster weights c_prob
\* being the same.
C4_ProbSameForAnyEncodingNoise ==
  (IsVQTrain /\ ret.status = "ok") =>
    \A se \in Seeds :
      \E c \in {call}, bks \in {books}, lpq \in {log_param_q},
         lpqc \in {log_param_q_cls}, temp \in {temperature}, r \in {ret} :
        LET r2 == VQForwardTrain(c.ze, c.c_logits, bks, lpq, lpqc, temp,
                                 c.Uc, UeOf(se))
        IN  r2.prob = r.prob /\ r2.log_prob = r.log_prob

\* a training call that returned, and whose zq another draw of the encoding
\* noise changes
C4_Witness ==
  /\ IsVQTrain
  /\ ret.status = "ok"
  /\ \E se \in Seeds :
       /\ UeOf(se) /= call.Ue
       /\ VQForwardTrain(call.ze, call.c_logits, books, log_param_q,
                         log_param_q_cls, temperature, call.Uc, UeOf(se)).zq
            /= ret.zq

\* C5: what forward hands back depends on the parameters, the inputs, the
\* mode and the noise only: it is the same whatever the temperature
\* attribute holds.
C5_ForwardIgnoresTemperature ==
  IsVQ =>
    \A t \in {NoValue} \cup TempVals :
      \E c \in {call}, bks \in {books}, lpq \in {log_param_q},
         lpqc \in {log_param_q_cls}, r \in {ret} :
        VQForwardOf(c, bks, lpq, lpqc, t) = r

\* PrecisionQ over LogParamWide, tabulated: entry k + XMax + 1 is the
\* precision at log-parameter k
PrecisionTable == Row([i \in 1..(2 * XMax + 1) |-> PrecisionQ((i - XMax - 1) * One)])
PrecisionAt(lp) == PrecisionTable[(lp \div One) + XMax + 1]

\* finite, unclamped, param_q > 1, strictly decreasing
PrecisionStrict(lp) ==
  /\ Finite(PrecisionAt(lp))
  /\ ParamQ(lp) > One
  /\ Clamp(ParamQ(lp), ClampFloor) = ParamQ(lp)
  /\ \A x \in LogParamWide : x > lp => PrecisionAt(x) < PrecisionAt(lp)

\* C8 (as stated): the precision is finite, the clamped value is param_q
\* itself, param_q > 1, and a larger log-parameter gives a strictly
\* smaller precision, for log_param_q and for log_param_q_cls.
C8_PrecisionStrictlyDecreasing ==
  (IsVQ /\ ret.status = "ok") =>
    /\ ret.precision_q = PrecisionAt(log_param_q)
    /\ PrecisionStrict(log_param_q)
    /\ PrecisionStrict(log_param_q_cls)

\* finite and within [0, 0.5], unclamped, param_q >= 1, non-increasing
PrecisionMonotone(lp) ==
  /\ Finite(PrecisionAt(lp))
  /\ 0 <= PrecisionAt(lp) /\ PrecisionAt(lp) <= Half
  /\ ParamQ(lp) >= One
  /\ Clamp(ParamQ(lp), ClampFloor) = ParamQ(lp)
  /\ \A x \in LogParamWide : x > lp => PrecisionAt(x) <= PrecisionAt(lp)

\* C8 (amended): the precision is finite and within [0, 0.5], the clamped
\* value is param_q itself, param_q >= 1, and a larger log-parameter never
\* gives a larger precision, for log_param_q and for log_param_q_cls.
C8_PrecisionNonIncreasing ==
  (IsVQ /\ ret.status = "ok") =>
    /\ ret.precision_q = PrecisionAt(log_param_q)
    /\ PrecisionMonotone(log_param_q)
    /\ PrecisionMonotone(log_param_q_cls)

\* a call that returned with log_param_q at the top of the range, where exp
\* overflows
C8_Witness ==
  /\ IsVQ
  /\ ret.status = "ok"
  /\ log_param_q = XMax * One
  /\ FExp(log_param_q) = Inf
  /\ ret.precision_q = 0


\* ------------------------------------------------- lifecycle and losses
IsOp(name) == call /= Idle /\ call.op = name

\* C1 (as stated): once configure_model has run, forward(x_vis, x_spc, mask)
\* completes without error and returns the seven values.
C1_ForwardReturnsSeven ==
  IsOp("forward") /\ ncfg > 0 => ret.status = "ok" /\ Len(ret.value) = 7

\* C2: a forward call that no configure_model call precedes raises and
\* returns nothing, and Q, Pz_y and Px_z stay unset.
C2_ForwardBeforeConfigureFails ==
  IsOp("forward") /\ ncfg = 0 =>
    /\ ret.status = "TypeError"
    /\ "value" \notin DOMAIN ret
    /\ Q = None /\ Pz_y = None /\ Px_z = None

C2_Witness ==
  /\ IsOp("forward") /\ ncfg = 0
  /\ ret.status = "TypeError"
  /\ Q = None

\* the reconstructions that agree with fake wherever mask is False
AgreeUnmasked(fake, mask) ==
  { f \in RecSet : \A t \in 1..SeqLen : ~mask[t] => f[t] = fake[t] }

\* C6: the mean-reduced visual and sum-reduced spatial reconstruction terms
\* of loss_func do not depend on the reconstruction at masked positions:
\* any reconstruction that agrees wherever mask is False gives the same terms.
C6_MaskedLossIgnoresMasked ==
  IsOp("loss_func") /\ ret.status = "ok" =>
    \A a \in {call.args}, cfg \in {config}, lg \in {ret.logged} :
      /\ \A f \in AgreeUnmasked(a.fake_x_vis, a.mask) :
           NMul(MaskedMse(a.x_vis, f, a.mask, "mean"), cfg.lrc_x_vis) = lg.x_vis
      /\ \A f \in AgreeUnmasked(a.fake_x_spc, a.mask) :
           NMul(MaskedMse(a.x_spc, f, a.mask, "sum"), cfg.lrc_x_spc) = lg.x_spc

\* a call with a masked position whose two terms are non-zero numbers
C6_Witness ==
  /\ IsOp("loss_func") /\ ret.status = "ok"
  /\ call.args.mask = <<TRUE, FALSE>>
  /\ ret.logged.x_vis > 0 /\ ret.logged.x_spc > 0
  /\ Cardinality(AgreeUnmasked(call.args.fake_x_vis, call.args.mask)) > 1

MomentsEqual(c) == c.m = c.m_p /\ c.logv = c.logv_p

KlTol == One \div 4
FarApart(a, b) == \E t \in 1..Len(a) : Abs(a[t] - b[t]) >= KlTol

C9_TrainingStepReturnsLossAndMetrics ==
  IsOp("training_step") /\ ncfg > 0 =>
    ret.status = "ok" /\ ret.value = <<ret.logged.l, ret.logged>>

\* sum of f over the positions where mask is False
RECURSIVE SumUnmasked(_, _, _)
SumUnmasked(f, mask, t) ==
  IF t = 0 THEN 0
  ELSE SumUnmasked(f, mask, t - 1) + (IF mask[t] THEN 0 ELSE f[t])
SqErr(x, fake) == [t \in 1..Len(x) |-> FMul(x[t] - fake[t], x[t] - fake[t])]
CountUnmasked(mask) == Cardinality({t \in 1..Len(mask) : ~mask[t]})
Uniform(y) == [i \in 1..Len(y) |-> [j \in 1..Len(y[i]) |-> Quot(One, Len(y[i]) * One)]]

\* C10: the loss loss_func returns is the sum of the masked visual error
\* times lrc_x_vis, the masked spatial error times lrc_x_spc, the Gaussian KL
\* times lg and the KL of y to the uniform distribution times lc, with no
\* term clamped; the metric 'l' is the sum of 'x_vis', 'x_spc', 'g' and 'c'.
C10_LossIsWeightedSum ==
  IsOp("loss_func") /\ ret.status = "ok" =>
    \A a \in {call.args}, cfg \in {config}, lg \in {ret.logged} :
      LET n == CountUnmasked(a.mask)
          vis == IF n = 0 THEN NaN
                 ELSE FMul(RoundDiv(SumUnmasked(SqErr(a.x_vis, a.fake_x_vis),
                                                a.mask, SeqLen), n),
                           cfg.lrc_x_vis)
          spc == FMul(SumUnmasked(SqErr(a.x_spc, a.fake_x_spc), a.mask, SeqLen),
                      cfg.lrc_x_spc)
          g == FMul(KlGaussianOf(a.mu, a.logvar, a.mu_prior, a.logvar_prior),
                    cfg.lg)
          c == FMul(KlClusteringOf(a.y, Uniform(a.y)), cfg.lc)
      IN  /\ lg.x_vis = vis /\ lg.x_spc = spc /\ lg.g = g /\ lg.c = c
          /\ ret.value = NAdd(NAdd(NAdd(vis, spc), g), c)
          /\ lg.l = NAdd(NAdd(NAdd(lg.x_vis, lg.x_spc), lg.g), lg.c)
          /\ lg.l = ret.value

\* four different weights, four non-zero terms, one of them above 1
C10_Witness ==
  /\ IsOp("loss_func") /\ ret.status = "ok"
  /\ Cardinality({config.lrc_x_vis, config.lrc_x_spc, config.lg, config.lc}) = 4
  /\ ret.logged.x_vis > 0 /\ ret.logged.x_spc > 0
  /\ ret.logged.g > One /\ ret.logged.c > 0
  /\ ret.value = ret.logged.x_vis + ret.logged.x_spc + ret.logged.g + ret.logged.c

\* --------------------------------------------------- codebook mixing
\* the cluster weights of example i of a training call
CProbOf(c, i, lpqc, temp) ==
  GumbelSoftmaxRelaxation(
    Row([j \in 1..NClusters |-> FMul(c.c_logits[i][j], PrecisionQ(lpqc))]),
    c.Uc[i], temp)

\* -distance(ze[i][p], book_j) * precision_q, one entry per row of the book
LogitJ(c, i, p, j, bks, lpq) ==
  Row([r \in 1..BookSize |->
    FMul(-CalcDistance(c.ze[i], bks[j])[p][r], PrecisionQ(lpq))])

\* the sum over all codebooks of c_prob[j] * logitj
MixedLogit(c, i, p, bks, lpq, c_prob) ==
  Row([r \in 1..BookSize |->
    SumSeq(Row([j \in 1..NClusters |->
      FMul(LogitJ(c, i, p, j, bks, lpq)[r], c_prob[j])]))])

\* the sum over all codebooks of c_prob[j] * (relaxed encoding_j x book_j)
MixedZq(c, i, p, bks, lpq, temp, c_prob) ==
  Row([d \in 1..LatentNdim |->
    SumSeq(Row([j \in 1..NClusters |->
      FMul(MatMulRow(GumbelSoftmaxRelaxation(LogitJ(c, i, p, j, bks, lpq),
                                             c.Ue[i][j][p], temp),
                     bks[j])[d],
           c_prob[j])]))])

\* the call of example i alone
OnlyExample(c, i) ==
  [c EXCEPT !.ze = <<c.ze[i]>>, !.c_logits = <<c.c_logits[i]>>,
            !.Uc = <<c.Uc[i]>>, !.Ue = <<c.Ue[i]>>]

\* C11: in a training call that returns, for every example the mixed logits
\* (seen through prob and log_prob) are the sum over all n_clusters
\* codebooks of c_prob[j] * (-distance * precision_q) and zq is the sum over
\* all codebooks of c_prob[j] * (relaxed encoding_j x book_j), each codebook
\* once; an example gives what it gives in a call of its own, whatever the
\* local books tensor held after the examples before it.
C11_MixSumsEveryCodebookOnce ==
  (IsVQTrain /\ ret.status = "ok") =>
    \E c \in {call}, bks \in {books}, lpq \in {log_param_q},
       lpqc \in {log_param_q_cls}, temp \in {temperature}, r \in {ret} :
      /\ Len(bks) = NClusters
      /\ \A i \in 1..BatchSize :
           LET c_prob == CProbOf(c, i, lpqc, temp)
               alone  == VQForwardOf(OnlyExample(c, i), bks, lpq, lpqc, temp)
           IN  /\ Len(c_prob) = NClusters
               /\ \A p \in 1..NPts :
                    LET logit == MixedLogit(c, i, p, bks, lpq, c_prob)
                    IN  /\ r.prob[i][p] = Softmax(logit)
                        /\ r.log_prob[i][p] = LogSoftmax(logit)
                        /\ r.zq[i][p] = MixedZq(c, i, p, bks, lpq, temp, c_prob)
               /\ alone.zq[1] = r.zq[i]
               /\ alone.prob[1] = r.prob[i]

\* a training call that returned, its two examples with different cluster
\* logits, the second a true blend: both codebooks weigh in and its zq is
\* a row of neither
C11_Witness ==
  /\ IsVQTrain
  /\ ret.status = "ok"
  /\ call.c_logits[1] /= call.c_logits[2]
  /\ \A j \in 1..NClusters :
       CProbOf(call, 2, log_param_q_cls, temperature)[j] > 0
  /\ \A j \in 1..NClusters, r \in 1..BookSize : ret.zq[2][1] /= books[j][r]

\* ------------------------------------------------ the stored codebooks
\* n_clusters codebooks of book_size rows of latent_ndim entries
BooksShape(bks) ==
  /\ Len(bks) = NClusters
  /\ \A j \in 1..NClusters :
       /\ Len(bks[j]) = BookSize
       /\ \A r \in 1..BookSize : Len(bks[j][r]) = LatentNdim

\* C12: a forward call of the quantizer, in training or in inference mode,
\* whether it returns or raises, leaves the stored codebooks as they were:
\* n_clusters codebooks of shape book_size x latent_ndim, in the same order
\* and with the same values.
C12_ForwardKeepsBooks ==
  [][(call = Idle /\ call'.op = "vq.forward") =>
       /\ books' = books
       /\ BooksShape(books) /\ BooksShape(books')]_vars

\* a training call that returned: its local books tensor holds one entry
\* more than the stored collection, which is one of the initial ones
C12_Witness ==
  /\ IsVQTrain
  /\ ret.status = "ok"
  /\ books \in BookSets
  /\ Len(TrainExample(call.ze[2], call.c_logits[2], books,
                      PrecisionQ(log_param_q), PrecisionQ(log_param_q_cls),
                      temperature, call.Uc[2], call.Ue[2]).books_local)
       = NClusters + 1

\* ------------------------------------------------- the relaxation of y
\* q(y|x) as the softmax head of Q gives it
PlainY(x_vis, x_spc, mask) == Net(Q, "qy_x", <<x_vis, x_spc, mask>>)

\* C13 (as stated): in an inference-mode evaluation of a configured model
\* (forward, or predict_step through it) the call returns, y is the plain
\* softmax output of Q, and the prior is handed y itself: no gumbel-relaxed
\* sample of the cluster variable is drawn on the forward path.
C13_InferenceDrawsNoRelaxedY ==
  /\ IsOp("forward") /\ ncfg > 0 =>
       /\ ret.status = "ok"
       /\ ret.value[7] = PlainY(call.x_vis, call.x_spc, call.mask)
       /\ ret.value[5].of[1] = ret.value[7]
  /\ IsOp("predict_step") /\ ncfg > 0 =>
       /\ ret.status = "ok"
       /\ ret.value.y.of
            = PlainY(call.batch.x_vis, call.batch.x_spc, call.batch.mask)

\* ------------------------------------------------------ configure_model
\* C14: the sub-models are constructed exactly once, by the first
\* configure_model call: before it all three are unset, and after any
\* number of configure_model calls, interleaved with any other calls, Q,
\* Pz_y and Px_z are still the three objects the first call constructed.
C14_ConfigureBuildsOnce ==
  /\ ncfg = 0 => Q = None /\ Pz_y = None /\ Px_z = None /\ nbuilt = 0
  /\ ncfg > 0 =>
       /\ Q = [cls |-> "Q", id |-> 1]
       /\ Pz_y = [cls |-> "Pz_y", id |-> 2]
       /\ Px_z = [cls |-> "Px_z", id |-> 3]
       /\ nbuilt = 3

\* a configure_model call after the first has returned, the sub-models
\* still those of the first
C14_Witness ==
  /\ IsOp("configure_model")
  /\ ret.status = "ok"
  /\ ncfg >= 2
  /\ Q = [cls |-> "Q", id |-> 1]
  /\ nbuilt = 3

====
